---- MODULE Spec2Model ----
(***************************************************************************)
(* State-machine model of the watch-history backend (backend/main.py).     *)
(* Every HTTP handler is one atomic action: requests are executed one      *)
(* after another, each against the committed database state.               *)
(*                                                                         *)
(* Tables are modelled as follows.                                         *)
(*   history   : set of WatchHistory rows (records carrying their id).     *)
(*   followers : multiset of Follower rows, as a count per                 *)
(*               <<follower_id, followed_id>>.                             *)
(*   likes     : multiset of Like rows, as a count per                     *)
(*               <<user_id, history_id>>.                                  *)
(*   inbox     : set of InboxMessage rows.                                 *)
(*   user_rows : the identity columns of the users table (id, email,       *)
(*               name, bio); RENDER : the environment variable of the      *)
(*               process, "unset" or its value.                            *)
(*   recommended : the tmdb ids of the last answer of get_recommendations. *)
(*   playlists, playlist_items : sets of Playlist and PlaylistItem rows;   *)
(*               the JSON list in playlists.collaborators is a sequence.   *)
(*   xp, level, current_streak, last_active_date : columns of users.       *)
(*   schema    : the <<table, column>> pairs of the database; mig_status   *)
(*               : outcome of the last run of run_migrations; mig_alters   *)
(*               : the ALTER statements of each run so far.                *)
(* Notification rows are append-only and are read by none of the handlers  *)
(* modelled here, so the notifications table is not part of the state.     *)
(* check_badges only acts at 100 watched rows, far beyond the bounds.      *)
(***************************************************************************)
EXTENDS Integers, Sequences, FiniteSets, TLC

VARIABLES history, xp, level, current_streak, last_active_date, today,
          followers, likes, inbox, resp,
          lvl_in, lvl_out, cmp_a, cmp_b, cmp_out,
          playlists, playlist_items, recommended, user_rows, RENDER,
          lb_users, lb_follows, lb_scope, lb_genre, lb_out,
          schema, mig_status, mig_alters, dialect

vars == <<history, xp, level, current_streak, last_active_date, today,
          followers, likes, inbox, resp,
          lvl_in, lvl_out, cmp_a, cmp_b, cmp_out,
          playlists, playlist_items, recommended, user_rows, RENDER,
          lb_users, lb_follows, lb_scope, lb_genre, lb_out,
          schema, mig_status, mig_alters, dialect>>

dbVars == <<history, xp, level, current_streak, last_active_date, today,
            followers, likes, inbox, resp, playlists, playlist_items,
            recommended, user_rows, RENDER>>

levelVars == <<lvl_in, lvl_out>>

compatVars == <<cmp_a, cmp_b, cmp_out>>

boardVars == <<lb_users, lb_follows, lb_scope, lb_genre, lb_out>>

migVars == <<schema, mig_status, mig_alters, dialect>>

(***************************************************************************)
(* Bounds                                                                  *)
(***************************************************************************)
MaxHistId == 2
MaxViews == 2
MaxDay == 3
MaxMsgs == 2
MaxPlaylistId == 2
MaxItemId == 2
MaxUserId == 2
MaxLevelXp == 1650
MaxCompatRows == 12
MaxBoardUsers == 2
MaxRuns == 2

(***************************************************************************)
(* Domains of request inputs                                               *)
(***************************************************************************)
Users == {1, 2}
Viewers == {1}
UserIds == {1, 2, 3}
TmdbIds == {1, 2}
Featured == {1}
HistIds == 1..MaxHistId
MediaOf(t) == IF t = 1 THEN "movie" ELSE "tv"
Statuses == {"watchlist", "watched", "blocked"}
Ratings == {-1, 0, 4, 6}
MsgTypes == {"dm", "recommendation"}
MsgActions == {"dismiss", "accept"}

NoDate == 0

NoResp == [op |-> "none", user |-> 0, arg |-> 0, code |-> 0, status |-> ""]

Response(op, u, arg, code, status) ==
    [op |-> op, user |-> u, arg |-> arg, code |-> code, status |-> status]

(***************************************************************************)
(* Gamification: calculate_level, update_streak, recalculate_xp            *)
(***************************************************************************)
RECURSIVE Isqrt(_)
Isqrt(n) ==
    IF n < 2 THEN n
    ELSE LET s == 2 * Isqrt(n \div 4)
         IN  IF (s + 1) * (s + 1) <= n THEN s + 1 ELSE s

\* Mutant: rounds sqrt(xp)/20 to the nearest integer instead of down.
calculate_level_rounded(x) ==
    IF x < 0 THEN 1 ELSE ((Isqrt(x) + 10) \div 20) + 1

calculate_level(x) ==
    IF x < 0 THEN 1 ELSE (Isqrt(x) \div 20) + 1

\* Mutant: a second active request on the same day counts again.
StreakAfter_sameDayCounts(streak, last, day) ==
    IF last = NoDate THEN 1
    ELSE IF last = day \/ last = day - 1 THEN streak + 1
    ELSE 1

\* Value of current_streak after update_streak on day `day`.
StreakAfter(streak, last, day) ==
    IF last = NoDate THEN 1
    ELSE IF last = day THEN streak
    ELSE IF last = day - 1 THEN streak + 1
    ELSE 1

\* XP one row adds inside the loop of recalculate_xp.
ItemXp(item) ==
    IF item.status = "watched"
    THEN 5
         + (IF item.media_type = "movie" THEN 100 ELSE 25)
         + (IF (IF item.view_count = 0 THEN 1 ELSE item.view_count) > 1
            THEN (item.view_count - 1) * 10 ELSE 0)
         + (IF item.rating # 0 /\ item.rating > 0 THEN 50 ELSE 0)
    ELSE 0

RECURSIVE SumXp(_)
SumXp(rows) ==
    IF rows = {} THEN 0
    ELSE LET item == CHOOSE r \in rows : TRUE
         IN  ItemXp(item) + SumXp(rows \ {item})

UserRows(h, u) == {r \in h : r.user_id = u}

\* total_xp computed by recalculate_xp for user u over table h.
recalculate_xp(h, u) == SumXp(UserRows(h, u))

(***************************************************************************)
(* Table helpers                                                           *)
(***************************************************************************)
\* Rows matched by filter(tmdb_id == t, user_id == u); .first() takes one.
Matches(h, u, t) == {r \in h : r.user_id = u /\ r.tmdb_id = t}

MaxId(rows) ==
    IF rows = {} THEN 0
    ELSE CHOOSE i \in {r.id : r \in rows} : \A r \in rows : r.id <= i

\* Primary key of an inserted row: above every id in the table (SQLite's
\* rowid rule; a sequence may skip ids, which no handler can tell apart).
NewId(rows) == MaxId(rows) + 1

NewRow(h, u, t, m, s, vc) ==
    [id |-> NewId(h), user_id |-> u, tmdb_id |-> t, media_type |-> m,
     status |-> s, rating |-> 0, view_count |-> vc]

Replace(h, old, new) == (h \ {old}) \cup {new}

\* Effect of the gamification hooks that follow a write of the history table.
Gamify(h, u, streakToo) ==
    /\ current_streak' =
         IF streakToo
         THEN [current_streak EXCEPT
                 ![u] = StreakAfter(current_streak[u], last_active_date[u], today)]
         ELSE current_streak
    /\ last_active_date' =
         IF streakToo THEN [last_active_date EXCEPT ![u] = today]
         ELSE last_active_date
    /\ xp' = [xp EXCEPT ![u] = recalculate_xp(h, u)]
    /\ level' = [level EXCEPT ![u] = calculate_level(recalculate_xp(h, u))]

(***************************************************************************)
(* Schema: the columns that run_migrations adds                            *)
(***************************************************************************)
Col(t, c) == <<t, c>>

\* The ALTER TABLE ... ADD COLUMN statements of run_migrations, in the order
\* of the code.
Listed ==
    <<Col("history", "total_episodes"), Col("history", "rating"),
      Col("history", "user_id"), Col("history", "production_companies"),
      Col("history", "cast"), Col("history", "crew"),
      Col("history", "keywords"), Col("history", "production_countries"),
      Col("users", "bio"), Col("users", "city"), Col("users", "country"),
      Col("users", "xp"), Col("users", "level"),
      Col("users", "current_streak"), Col("users", "last_active_date"),
      Col("notifications", "ref_id"),
      Col("history", "view_count"), Col("history", "rewatch_dates"),
      Col("history", "seasons_watched"), Col("history", "episode_progress"),
      Col("history", "watched_episodes"), Col("history", "watch_providers"),
      Col("playlist_items", "poster_path"),
      Col("playlists", "collaborators")>>

ListedCols == {Listed[i] : i \in DOMAIN Listed}

TableNames == {e[1] : e \in ListedCols}

\* Every table has its primary key, so a table exists when its id column does.
has_table(sch, t) == Col(t, "id") \in sch

\* Base.metadata.create_all: a missing table is created with every column
\* of its model, an existing table is left as it is.
CreateAll(sch) ==
    sch \cup UNION {{Col(t, "id")} \cup {e \in ListedCols : e[1] = t} :
                      t \in {x \in TableNames : ~has_table(sch, x)}}

(***************************************************************************)
(* Initial state: empty tables, users with column defaults                 *)
(***************************************************************************)
InitDb ==
    /\ history = {}
    /\ xp = [u \in Users |-> 0]
    /\ level = [u \in Users |-> 1]
    /\ current_streak = [u \in Users |-> 0]
    /\ last_active_date = [u \in Users |-> NoDate]
    /\ today = 1
    /\ followers = [p \in Users \X UserIds |-> 0]
    /\ likes = [p \in Users \X HistIds |-> 0]
    /\ inbox = {}
    /\ resp = NoResp
    /\ playlists = {}
    /\ playlist_items = {}
    /\ recommended = {}
    /\ user_rows = {}
    /\ RENDER = "unset"

InitLevel == lvl_in = 0 /\ lvl_out = 0

InitCompat == cmp_a = <<>> /\ cmp_b = <<>> /\ cmp_out = -1

InitBoard ==
    /\ lb_users = <<>>
    /\ lb_follows = {}
    /\ lb_scope = "global"
    /\ lb_genre = ""
    /\ lb_out = <<>>

\* The databases that DATABASE_URL selects: the local SQLite file by default,
\* PostgreSQL in production.
Dialects == {"sqlite", "postgresql"}

\* A database that create_all has created from the current models.
InitSchema ==
    /\ schema = CreateAll({})
    /\ mig_status = "start"
    /\ mig_alters = <<>>
    /\ dialect = "sqlite"

Init == InitDb /\ InitLevel /\ InitCompat /\ InitBoard /\ InitSchema

(***************************************************************************)
(* Watch-history handlers                                                  *)
(***************************************************************************)
Harness == <<lvl_in, lvl_out, cmp_a, cmp_b, cmp_out, boardVars, migVars>>

Social == <<followers, likes, inbox>>

Game == <<xp, level, current_streak, last_active_date>>

Lists == <<playlists, playlist_items>>

\* The tables that the history, social and inbox handlers do not touch.
Accts == <<user_rows, RENDER>>

Extra == <<Lists, recommended, Accts>>

\* An error response: the handler raised before writing anything.
Fail(op, u, arg, code) ==
    /\ resp' = Response(op, u, arg, code, "")
    /\ UNCHANGED <<history, Game, today, Social, Harness, Extra>>

\* Row after log_content's UPDATE LOGIC for request status s.
LoggedAgain(entry, s) ==
    IF s = "watched"
    THEN IF entry.status = "watchlist"
         THEN [entry EXCEPT !.status = "watched", !.view_count = 1]
         ELSE [entry EXCEPT !.view_count = @ + 1]
    ELSE entry

\* POST /api/log.  found = the metadata provider returned the title.
log_content(u, t, m, s, found) ==
    IF ~found
    THEN Fail("log_content", u, t, 404)
    ELSE /\ IF Matches(history, u, t) # {}
            THEN \E entry \in Matches(history, u, t) :
                   LET new == LoggedAgain(entry, s)
                       h == Replace(history, entry, new)
                   IN  /\ new.view_count <= MaxViews
                       /\ history' = h
                       /\ Gamify(h, u, s = "watched" \/ new.status = "watched")
            ELSE LET new == NewRow(history, u, t, m, s,
                                   IF s = "watched" THEN 1 ELSE 0)
                     h == history \cup {new}
                 IN  /\ new.id <= MaxHistId
                     /\ history' = h
                     /\ Gamify(h, u, s = "watched" \/ new.status = "watched")
         /\ resp' = Response("log_content", u, t, 200, "success")
         /\ UNCHANGED <<today, Social, Harness, Extra>>

\* PUT /api/entry/{id}/status
update_status(u, t, s) ==
    IF Matches(history, u, t) = {}
    THEN Fail("update_status", u, t, 404)
    ELSE \E entry \in Matches(history, u, t) :
           LET h == Replace(history, entry, [entry EXCEPT !.status = s])
           IN  /\ history' = h
               /\ Gamify(h, u, s = "watched")
               /\ resp' = Response("update_status", u, t, 200, "updated")
               /\ UNCHANGED <<today, Social, Harness, Extra>>

\* PUT /api/entry/{id}/progress: the progress columns are not in the state.
update_progress(u, t) ==
    IF Matches(history, u, t) = {}
    THEN Fail("update_progress", u, t, 404)
    ELSE /\ history' = history
         /\ Gamify(history, u, FALSE)
         /\ resp' = Response("update_progress", u, t, 200, "updated")
         /\ UNCHANGED <<today, Social, Harness, Extra>>

\* Deleting a history row detaches its Like rows (history_id set to NULL).
Detach(l, hid) == [p \in DOMAIN l |-> IF p[2] = hid THEN 0 ELSE l[p]]

\* DELETE /api/entry/{id}
delete_entry(u, t) ==
    IF Matches(history, u, t) = {}
    THEN Fail("delete_entry", u, t, 404)
    ELSE \E entry \in Matches(history, u, t) :
           LET h == history \ {entry}
           IN  /\ history' = h
               /\ likes' = Detach(likes, entry.id)
               /\ Gamify(h, u, FALSE)
               /\ resp' = Response("delete_entry", u, t, 200, "deleted")
               /\ UNCHANGED <<today, followers, inbox, Harness, Extra>>

\* Mutant: the range check on the rating is missing.
update_rating_noRangeCheck(u, t, rating) ==
    IF Matches(history, u, t) = {}
    THEN Fail("update_rating", u, t, 404)
    ELSE \E item \in Matches(history, u, t) :
           LET h == Replace(history, item, [item EXCEPT !.rating = rating])
           IN  /\ history' = h
               /\ Gamify(h, u, FALSE)
               /\ resp' = Response("update_rating", u, t, 200, "updated")
               /\ UNCHANGED <<today, Social, Harness, Extra>>

\* PUT /api/log/{tmdb_id}/rating
update_rating(u, t, rating) ==
    IF Matches(history, u, t) = {}
    THEN Fail("update_rating", u, t, 404)
    ELSE IF rating < 0 \/ rating > 5
    THEN Fail("update_rating", u, t, 400)
    ELSE \E item \in Matches(history, u, t) :
           LET h == Replace(history, item, [item EXCEPT !.rating = rating])
           IN  /\ history' = h
               /\ Gamify(h, u, FALSE)
               /\ resp' = Response("update_rating", u, t, 200, "updated")
               /\ UNCHANGED <<today, Social, Harness, Extra>>

\* XP written by rewatch_item.
RewatchXp(old) == old + 50

\* POST /api/history/{tmdb_id}/rewatch
rewatch_item(u, t) ==
    IF Matches(history, u, t) = {}
    THEN /\ resp' = Response("rewatch_item", u, t, 200, "error")
         /\ UNCHANGED <<history, Game, today, Social, Harness, Extra>>
    ELSE \E item \in Matches(history, u, t) :
           /\ item.view_count < MaxViews
           /\ history' = Replace(history, item,
                                 [item EXCEPT !.view_count = @ + 1])
           /\ xp' = [xp EXCEPT ![u] = RewatchXp(xp[u])]
           /\ resp' = Response("rewatch_item", u, t, 200, "success")
           /\ UNCHANGED <<level, current_streak, last_active_date, today,
                          Social, Harness, Extra>>

\* Mutant: block_item inserts a blocked row without looking for an existing one.
block_item_alwaysInserts(u, t) ==
    /\ LET new == NewRow(history, u, t, "unknown", "blocked", 1)
       IN  /\ new.id <= MaxHistId
           /\ history' = history \cup {new}
    /\ resp' = Response("block_item", u, t, 200, "blocked")
    /\ UNCHANGED <<Game, today, Social, Harness, Extra>>

\* POST /api/history/{tmdb_id}/block
block_item(u, t) ==
    /\ IF Matches(history, u, t) # {}
       THEN \E item \in Matches(history, u, t) :
              history' = Replace(history, item, [item EXCEPT !.status = "blocked"])
       ELSE LET new == NewRow(history, u, t, "unknown", "blocked", 1)
            IN  /\ new.id <= MaxHistId
                /\ history' = history \cup {new}
    /\ resp' = Response("block_item", u, t, 200, "blocked")
    /\ UNCHANGED <<Game, today, Social, Harness, Extra>>

\* The calendar day returned by datetime.utcnow().date() moves on.
AdvanceDay ==
    /\ today < MaxDay
    /\ today' = today + 1
    /\ resp' = NoResp
    /\ UNCHANGED <<history, Game, Social, Harness, Extra>>

(***************************************************************************)
(* Social handlers                                                         *)
(***************************************************************************)
\* Mutant: the check against following oneself is missing.
follow_user_noSelfCheck(u, target) ==
    IF target \notin Users
    THEN Fail("follow_user", u, target, 404)
    ELSE IF followers[<<u, target>>] > 0
    THEN /\ resp' = Response("follow_user", u, target, 200, "already_following")
         /\ UNCHANGED <<history, Game, today, Social, Harness, Extra>>
    ELSE /\ followers' = [followers EXCEPT ![<<u, target>>] = @ + 1]
         /\ resp' = Response("follow_user", u, target, 200, "followed")
         /\ UNCHANGED <<history, Game, today, likes, inbox, Harness, Extra>>

\* Mutant: the lookup of an existing Follower row is missing.
follow_user_noExistingCheck(u, target) ==
    IF target = u
    THEN Fail("follow_user", u, target, 400)
    ELSE IF target \notin Users
    THEN Fail("follow_user", u, target, 404)
    ELSE /\ followers[<<u, target>>] < 2
         /\ followers' = [followers EXCEPT ![<<u, target>>] = @ + 1]
         /\ resp' = Response("follow_user", u, target, 200, "followed")
         /\ UNCHANGED <<history, Game, today, likes, inbox, Harness, Extra>>

\* POST /api/social/follow/{user_id}
follow_user(u, target) ==
    IF target = u
    THEN Fail("follow_user", u, target, 400)
    ELSE IF target \notin Users
    THEN Fail("follow_user", u, target, 404)
    ELSE IF followers[<<u, target>>] > 0
    THEN /\ resp' = Response("follow_user", u, target, 200, "already_following")
         /\ UNCHANGED <<history, Game, today, Social, Harness, Extra>>
    ELSE /\ followers' = [followers EXCEPT ![<<u, target>>] = @ + 1]
         /\ resp' = Response("follow_user", u, target, 200, "followed")
         /\ UNCHANGED <<history, Game, today, likes, inbox, Harness, Extra>>

\* POST /api/social/unfollow/{user_id}
unfollow_user(u, target) ==
    /\ followers' =
         IF followers[<<u, target>>] > 0
         THEN [followers EXCEPT ![<<u, target>>] = @ - 1]
         ELSE followers
    /\ resp' = Response("unfollow_user", u, target, 200, "unfollowed")
    /\ UNCHANGED <<history, Game, today, likes, inbox, Harness, Extra>>

\* Mutant: toggle_like adds a Like row whether or not one exists.
ToggleLike_alwaysAdds(l, u, hid) ==
    [l EXCEPT ![<<u, hid>>] = IF @ < 2 THEN @ + 1 ELSE @]

\* The likes table after toggle_like by u on an existing item hid.
ToggleLike(l, u, hid) ==
    IF l[<<u, hid>>] > 0
    THEN [l EXCEPT ![<<u, hid>>] = @ - 1]
    ELSE [l EXCEPT ![<<u, hid>>] = @ + 1]

\* POST /api/social/like/{history_id}
toggle_like(u, hid) ==
    IF \A r \in history : r.id # hid
    THEN Fail("toggle_like", u, hid, 404)
    ELSE /\ likes' = ToggleLike(likes, u, hid)
         /\ resp' = Response("toggle_like", u, hid, 200,
                             IF likes[<<u, hid>>] > 0 THEN "unliked" ELSE "liked")
         /\ UNCHANGED <<history, Game, today, followers, inbox, Harness, Extra>>

\* POST /api/inbox/send.  r = 0 stands for a request without recipient.
send_message(u, r, type, content) ==
    IF r = 0
    THEN Fail("send_message", u, r, 400)
    ELSE IF r \notin Users
    THEN Fail("send_message", u, r, 404)
    ELSE /\ NewId(inbox) <= MaxMsgs
         /\ inbox' = inbox \cup
               {[id |-> NewId(inbox), sender_id |-> u, receiver_id |-> r,
                 type |-> type, content_id |-> content]}
         /\ resp' = Response("send_message", u, r, 200, "sent")
         /\ UNCHANGED <<history, Game, today, followers, likes, Harness, Extra>>

\* Mutant: looks the message up by id alone, whoever the receiver is.
process_message_anyReceiver(u, msg_id, action) ==
    IF \A m \in inbox : m.id # msg_id
    THEN Fail("process_message", u, msg_id, 404)
    ELSE \E msg \in {m \in inbox : m.id = msg_id} :
           /\ inbox' = inbox \ {msg}
           /\ resp' = Response("process_message", u, msg_id, 200, "processed")
           /\ UNCHANGED <<history, Game, today, followers, likes, Harness, Extra>>

\* POST /api/inbox/{msg_id}/process.  The branch for action 'accept' on a
\* 'recommendation' only reads the history table and writes nothing.
process_message(u, msg_id, action) ==
    IF \A m \in inbox : ~(m.id = msg_id /\ m.receiver_id = u)
    THEN Fail("process_message", u, msg_id, 404)
    ELSE \E msg \in {m \in inbox : m.id = msg_id /\ m.receiver_id = u} :
           /\ inbox' = inbox \ {msg}
           /\ resp' = Response("process_message", u, msg_id, 200, "processed")
           /\ UNCHANGED <<history, Game, today, followers, likes, Harness, Extra>>

(***************************************************************************)
(* Accounts: get_current_user, google_login, update_profile                *)
(***************************************************************************)
Core == <<history, Game, today, Social>>

\* Bearer tokens: the literal 'dev', a string that jwt.decode rejects, a
\* signed token without 'sub', and signed tokens whose 'sub' is a user id.
Tokens == {"dev", "garbage", "nosub", "sub1", "sub2", "sub3"}

Decodes(token) == token \notin {"dev", "garbage"}

\* payload.get("sub"); 0 stands for None.
SubOf(token) ==
    IF token = "sub1" THEN 1
    ELSE IF token = "sub2" THEN 2
    ELSE IF token = "sub3" THEN 3
    ELSE 0

NewUser(email, name) ==
    [id |-> NewId(user_rows), email |-> email, name |-> name, bio |-> ""]

\* get_current_user, with devAllowed standing for the test of the
\* environment.  query(User).first() has no ORDER BY, so any row may come
\* first.
Authenticate(token, devAllowed) ==
    IF token = "dev" /\ devAllowed
    THEN IF user_rows # {}
         THEN /\ \E user \in user_rows :
                    resp' = Response("get_current_user", user.id, token, 200, "ok")
              /\ UNCHANGED <<Accts, Lists, recommended, Core, Harness>>
         ELSE LET user == NewUser("dev@example.com", "Dev User")
              IN  /\ user.id <= MaxUserId
                  /\ user_rows' = user_rows \cup {user}
                  /\ resp' = Response("get_current_user", user.id, token, 200, "ok")
                  /\ UNCHANGED <<RENDER, Lists, recommended, Core, Harness>>
    ELSE IF ~Decodes(token) \/ SubOf(token) = 0
    THEN Fail("get_current_user", 0, token, 401)
    ELSE IF \A r \in user_rows : r.id # SubOf(token)
    THEN Fail("get_current_user", 0, token, 401)
    ELSE \E user \in {r \in user_rows : r.id = SubOf(token)} :
           /\ resp' = Response("get_current_user", user.id, token, 200, "ok")
           /\ UNCHANGED <<Accts, Lists, recommended, Core, Harness>>

\* Mutant: the 'dev' token is accepted whatever the environment.
get_current_user_devAnywhere(token) == Authenticate(token, TRUE)

\* Depends(get_current_user): os.getenv("RENDER") is None.
get_current_user(token) == Authenticate(token, RENDER = "unset")

\* POST /api/auth/google.  verified = Google accepts the credential, whose
\* claims are email and name.
google_login(email, name, verified) ==
    IF ~verified
    THEN Fail("google_login", 0, email, 400)
    ELSE /\ IF \A r \in user_rows : r.email # email
            THEN LET user == NewUser(email, name)
                 IN  /\ user.id <= MaxUserId
                     /\ user_rows' = user_rows \cup {user}
                     /\ resp' = Response("google_login", user.id, email, 200, "token")
            ELSE \E user \in {r \in user_rows : r.email = email} :
                   /\ user_rows' = Replace(user_rows, user, [user EXCEPT !.name = name])
                   /\ resp' = Response("google_login", user.id, email, 200, "token")
         /\ UNCHANGED <<RENDER, Lists, recommended, Core, Harness>>

\* PUT /api/users/me for the authenticated user u.  name = "" stands for a
\* request without name; bio stands for the other profile fields.
update_profile(u, name, bio) ==
    \E me \in {r \in user_rows : r.id = u} :
       IF name # "" /\ name # me.name /\ (\E r \in user_rows : r.name = name)
       THEN Fail("update_profile", u, name, 400)
       ELSE /\ user_rows' = Replace(user_rows, me,
                  [me EXCEPT !.name = IF name # "" THEN name ELSE @, !.bio = bio])
            /\ resp' = Response("update_profile", u, name, 200, "updated")
            /\ UNCHANGED <<RENDER, Lists, recommended, Core, Harness>>

\* The service is started again with RENDER set or unset.
Restart ==
    \E env \in {"unset", "", "true"} :
       /\ RENDER' = env
       /\ resp' = NoResp
       /\ UNCHANGED <<user_rows, Lists, recommended, Core, Harness>>

(***************************************************************************)
(* Recommendations                                                         *)
(***************************************************************************)

\* The titles the metadata provider knows; MediaOf gives the type of each.
Catalogue == TmdbIds \cup {3}

\* seen_lookup: the (tmdb_id, media_type) pairs of the caller's rows.
SeenLookup(rows) == {<<r.tmdb_id, r.media_type>> : r \in rows}

\* Answer of /3/{seed_type}/{id}/recommendations: titles of the seed's type
\* out of `similar`; the provider has no endpoint for another type.
SeedResults(seed, similar) ==
    IF seed.media_type \in {"movie", "tv"}
    THEN {m \in similar : MediaOf(m) = seed.media_type}
    ELSE {}

\* Candidates of the seeds: results whose (id, seed type) pair is not seen.
\* Bounded histories have at most five rows, all in sorted_by_date[:5].
SeedCandidates(rows, similar) ==
    UNION {{m \in SeedResults(seed, similar[seed.tmdb_id]) :
               <<m, seed.media_type>> \notin SeenLookup(rows)} : seed \in rows}

\* Trending fill: trending titles whose (id, media_type) pair is not seen.
\* The catalogue is below the ten candidates that would skip the fill.
TrendingFill(rows, trending) ==
    {t \in trending : <<t, MediaOf(t)>> \notin SeenLookup(rows)}

\* GET /api/recommendations.  similar[t] and trending are the provider's
\* answers; an empty history gets the trending titles unfiltered.
get_recommendations(u, similar, trending) ==
    /\ recommended' =
          IF UserRows(history, u) = {} THEN trending
          ELSE SeedCandidates(UserRows(history, u), similar)
                  \cup TrendingFill(UserRows(history, u), trending)
    /\ resp' = Response("get_recommendations", u, 0, 200, "ok")
    /\ UNCHANGED <<Lists, Core, Accts, Harness>>

(***************************************************************************)
(* Playlist handlers                                                       *)
(***************************************************************************)

\* x in json.loads(collaborators)
InList(x, list) == \E i \in 1..Len(list) : list[i] = x

\* The permission test of the item handlers: owner or collaborator.
MayEdit(p, u) == p.user_id = u \/ InList(u, p.collaborators)

\* POST /api/playlists
create_playlist(u) ==
    /\ NewId(playlists) <= MaxPlaylistId
    /\ playlists' = playlists \cup
          {[id |-> NewId(playlists), user_id |-> u, collaborators |-> <<>>]}
    /\ resp' = Response("create_playlist", u, NewId(playlists), 200, "created")
    /\ UNCHANGED <<playlist_items, recommended, Core, Accts, Harness>>

\* POST /api/playlists/{id}/collaborate
add_collaborator(u, id, user_id) ==
    IF \A p \in playlists : ~(p.id = id /\ p.user_id = u)
    THEN Fail("add_collaborator", u, id, 403)
    ELSE \E p \in {q \in playlists : q.id = id /\ q.user_id = u} :
           IF ~InList(user_id, p.collaborators) /\ user_id # u
           THEN /\ playlists' = Replace(playlists, p,
                     [p EXCEPT !.collaborators = Append(@, user_id)])
                /\ resp' = Response("add_collaborator", u, id, 200, "added")
                /\ UNCHANGED <<playlist_items, recommended, Core, Accts, Harness>>
           ELSE /\ resp' = Response("add_collaborator", u, id, 200, "exists")
                /\ UNCHANGED <<Lists, recommended, Core, Accts, Harness>>

\* Mutant: inserts the item without the permission test.
add_playlist_item_noPermission(u, pid, t) ==
    IF \A p \in playlists : p.id # pid
    THEN Fail("add_playlist_item", u, pid, 404)
    ELSE /\ NewId(playlist_items) <= MaxItemId
         /\ playlist_items' = playlist_items \cup
               {[id |-> NewId(playlist_items), playlist_id |-> pid,
                 tmdb_id |-> t]}
         /\ resp' = Response("add_playlist_item", u, pid, 200, "added")
         /\ UNCHANGED <<playlists, recommended, Core, Accts, Harness>>

\* POST /api/playlists/{pid}/items
add_playlist_item(u, pid, t) ==
    IF \A p \in playlists : p.id # pid
    THEN Fail("add_playlist_item", u, pid, 404)
    ELSE \E p \in {q \in playlists : q.id = pid} :
           IF ~MayEdit(p, u)
           THEN Fail("add_playlist_item", u, pid, 403)
           ELSE /\ NewId(playlist_items) <= MaxItemId
                /\ playlist_items' = playlist_items \cup
                      {[id |-> NewId(playlist_items), playlist_id |-> p.id,
                        tmdb_id |-> t]}
                /\ resp' = Response("add_playlist_item", u, pid, 200, "added")
                /\ UNCHANGED <<playlists, recommended, Core, Accts, Harness>>

\* DELETE /api/playlists/{pid}/items/{item_id}
delete_playlist_item(u, pid, item_id) ==
    IF \A p \in playlists : p.id # pid
    THEN Fail("delete_playlist_item", u, pid, 404)
    ELSE \E p \in {q \in playlists : q.id = pid} :
           IF ~MayEdit(p, u)
           THEN Fail("delete_playlist_item", u, pid, 403)
           ELSE /\ playlist_items' =
                     {i \in playlist_items :
                         ~(i.id = item_id /\ i.playlist_id = pid)}
                /\ resp' = Response("delete_playlist_item", u, pid, 200,
                                    "deleted")
                /\ UNCHANGED <<playlists, recommended, Core, Accts, Harness>>

\* DELETE /api/playlists/{pid}
delete_playlist(u, pid) ==
    IF \A p \in playlists : p.id # pid
    THEN Fail("delete_playlist", u, pid, 404)
    ELSE \E p \in {q \in playlists : q.id = pid} :
           IF p.user_id # u
           THEN Fail("delete_playlist", u, pid, 403)
           ELSE /\ playlist_items' =
                     {i \in playlist_items : i.playlist_id # pid}
                /\ playlists' = playlists \ {p}
                /\ resp' = Response("delete_playlist", u, pid, 200, "deleted")
                /\ UNCHANGED <<recommended, Core, Accts, Harness>>

(***************************************************************************)
(* Specifications                                                          *)
(***************************************************************************)
\* Requests are drawn from small sets: callers U, titles T of the metadata
\* provider (title 1 is a movie, title 2 a TV show), statuses, ratings.
LogContent(U, T) ==
    \E u \in U, t \in T, s \in Statuses, found \in BOOLEAN :
       log_content(u, t, MediaOf(t), s, found)

UpdateStatus(U, T) == \E u \in U, t \in T, s \in Statuses : update_status(u, t, s)

UpdateProgress(U, T) == \E u \in U, t \in T : update_progress(u, t)

DeleteEntry(U, T) == \E u \in U, t \in T : delete_entry(u, t)

UpdateRating(U, T) == \E u \in U, t \in T, r \in Ratings : update_rating(u, t, r)

RewatchItem(U, T) == \E u \in U, t \in T : rewatch_item(u, t)

BlockItem(U, T) == \E u \in U, t \in T : block_item(u, t)

FollowUser == \E u \in Users, target \in UserIds : follow_user(u, target)

UnfollowUser == \E u \in Users, target \in UserIds : unfollow_user(u, target)

ToggleLikeReq == \E u \in Users, hid \in HistIds : toggle_like(u, hid)

SendMessage(U, T) ==
    \E u \in U, r \in UserIds \cup {0}, type \in MsgTypes, c \in T :
       send_message(u, r, type, c)

ProcessMessage(U) ==
    \E u \in U, id \in 1..MaxMsgs, a \in MsgActions : process_message(u, id, a)

PlaylistIds == 1..MaxPlaylistId

ItemIds == 1..MaxItemId

CreatePlaylist == \E u \in Users : create_playlist(u)

AddCollaborator ==
    \E u \in Users, id \in PlaylistIds, c \in Users : add_collaborator(u, id, c)

AddPlaylistItem ==
    \E u \in Users, pid \in PlaylistIds, t \in Featured :
       add_playlist_item(u, pid, t)

DeletePlaylistItem ==
    \E u \in Users, pid \in PlaylistIds, i \in ItemIds :
       delete_playlist_item(u, pid, i)

DeletePlaylist == \E u \in Users, pid \in PlaylistIds : delete_playlist(u, pid)

GetRecommendations(U) ==
    \E u \in U, similar \in [TmdbIds -> SUBSET Catalogue],
       trending \in SUBSET Catalogue :
          get_recommendations(u, similar, trending)

Emails == {"a@example.com", "b@example.com"}

Names == {"Ann", "Bob"}

Bios == {"", "hi"}

GetCurrentUser == \E token \in Tokens : get_current_user(token)

GoogleLogin ==
    \E email \in Emails, name \in Names, verified \in BOOLEAN :
       google_login(email, name, verified)

UpdateProfile ==
    \E u \in 1..MaxUserId, name \in Names \cup {"", "Dev User"}, bio \in Bios :
       update_profile(u, name, bio)

\* Every handler of the service, for every caller.
Next ==
    \/ LogContent(Users, TmdbIds)
    \/ UpdateStatus(Users, TmdbIds)
    \/ UpdateProgress(Users, TmdbIds)
    \/ DeleteEntry(Users, TmdbIds)
    \/ UpdateRating(Users, TmdbIds)
    \/ RewatchItem(Users, TmdbIds)
    \/ BlockItem(Users, TmdbIds)
    \/ AdvanceDay
    \/ FollowUser
    \/ UnfollowUser
    \/ ToggleLikeReq
    \/ SendMessage(Users, TmdbIds)
    \/ ProcessMessage(Users)
    \/ CreatePlaylist
    \/ AddCollaborator
    \/ AddPlaylistItem
    \/ DeletePlaylistItem
    \/ DeletePlaylist
    \/ GetRecommendations(Users)
    \/ GetCurrentUser
    \/ GoogleLogin
    \/ UpdateProfile
    \/ Restart

Spec == Init /\ [][Next]_vars

\* The handlers that write the history table or the users' xp and level,
\* called by one user of the two.
NextXp ==
    \/ LogContent(Viewers, TmdbIds)
    \/ UpdateStatus(Viewers, TmdbIds)
    \/ UpdateProgress(Viewers, TmdbIds)
    \/ DeleteEntry(Viewers, TmdbIds)
    \/ UpdateRating(Viewers, TmdbIds)
    \/ RewatchItem(Viewers, TmdbIds)
    \/ BlockItem(Viewers, TmdbIds)

SpecXp == Init /\ [][NextXp]_vars

\* The handlers that insert or delete history rows or write their rating and
\* view count, for one user.
NextRating ==
    \/ LogContent(Viewers, TmdbIds)
    \/ UpdateRating(Viewers, TmdbIds)
    \/ RewatchItem(Viewers, TmdbIds)
    \/ DeleteEntry(Viewers, TmdbIds)
    \/ BlockItem(Viewers, TmdbIds)

SpecRating == Init /\ [][NextRating]_vars

\* The handlers that call update_streak, for every caller and one title, and
\* the calendar.
NextStreak ==
    \/ LogContent(Users, Featured)
    \/ UpdateStatus(Users, Featured)
    \/ AdvanceDay

SpecStreak == Init /\ [][NextStreak]_vars

\* The handlers that insert, rewrite or delete the history rows of one user,
\* and the inbox of every user, filled by that user with one message at a
\* time about one title.
NextRows ==
    \/ LogContent(Viewers, TmdbIds)
    \/ BlockItem(Viewers, TmdbIds)
    \/ UpdateStatus(Viewers, TmdbIds)
    \/ DeleteEntry(Viewers, TmdbIds)
    \/ (inbox = {} /\ SendMessage(Viewers, Featured))
    \/ ProcessMessage(Users)

SpecRows == Init /\ [][NextRows]_vars

\* Follows and likes of every user, with the handlers that create and
\* delete the liked history rows (of one user).
NextSocial ==
    \/ FollowUser
    \/ UnfollowUser
    \/ ToggleLikeReq
    \/ LogContent(Viewers, TmdbIds)
    \/ DeleteEntry(Viewers, TmdbIds)

SpecSocial == Init /\ [][NextSocial]_vars

\* The inbox of every user, with the handler that gives one user a history
\* row for the recommended title.
NextInbox ==
    \/ SendMessage(Users, Featured)
    \/ ProcessMessage(Users)
    \/ LogContent(Viewers, Featured)

SpecInbox == Init /\ [][NextInbox]_vars

\* The handlers that give one user history rows, and that user's
\* recommendations.
NextRecs ==
    \/ LogContent(Viewers, TmdbIds)
    \/ BlockItem(Viewers, TmdbIds)
    \/ GetRecommendations(Viewers)

SpecRecs == Init /\ [][NextRecs]_vars

\* Authentication and the handlers that write the users' names.
NextAccounts ==
    \/ GetCurrentUser
    \/ GoogleLogin
    \/ UpdateProfile
    \/ Restart

SpecAccounts == Init /\ [][NextAccounts]_vars

\* The playlist handlers, for every caller.
NextLists ==
    \/ CreatePlaylist
    \/ AddCollaborator
    \/ AddPlaylistItem
    \/ DeletePlaylistItem
    \/ DeletePlaylist

SpecLists == Init /\ [][NextLists]_vars

(***************************************************************************)
(* calculate_level applied to bounded inputs                               *)
(***************************************************************************)
LevelInputs == (-3)..MaxLevelXp

LevelDeltas == {-400, -7, -1, 1, 7, 400}

\* lvl_out = 0 : calculate_level has not run yet.
CalcLevel ==
    \E d \in LevelDeltas \cup {0} :
       /\ lvl_in + d \in LevelInputs
       /\ d = 0 => lvl_out = 0
       /\ lvl_in' = lvl_in + d
       /\ lvl_out' = calculate_level(lvl_in + d)
       /\ UNCHANGED <<dbVars, compatVars, boardVars, migVars>>

InitLevelInputs ==
    /\ InitDb /\ InitCompat /\ InitBoard /\ InitSchema
    /\ lvl_in \in LevelInputs /\ lvl_out = 0

SpecLevel == InitLevelInputs /\ [][CalcLevel]_vars

(***************************************************************************)
(* calculate_compatibility applied to bounded histories                    *)
(***************************************************************************)
\* The loop over hist: <<movies, genres>> after rows i..Len(hist).
RECURSIVE Extract(_, _, _, _)
Extract(hist, i, movies, genres) ==
    IF i > Len(hist) THEN <<movies, genres>>
    ELSE Extract(hist, i + 1, movies \cup {hist[i].tmdb_id},
                 genres \o hist[i].genres)

Count(seq, g) == Cardinality({i \in DOMAIN seq : seq[i] = g})

FirstAt(seq, g) == CHOOSE i \in DOMAIN seq : seq[i] = g /\ \A j \in 1..(i - 1) : seq[j] # g

Keys(seq) == {seq[i] : i \in DOMAIN seq}

\* Counter(seq).most_common(n): by falling count, equal counts in order of
\* first occurrence.
RECURSIVE most_common(_, _, _)
most_common(seq, n, taken) ==
    LET rest == Keys(seq) \ taken
    IN  IF n = 0 \/ rest = {} THEN <<>>
        ELSE LET best == CHOOSE g \in rest : \A h \in rest :
                            \/ Count(seq, g) > Count(seq, h)
                            \/ /\ Count(seq, g) = Count(seq, h)
                               /\ FirstAt(seq, g) <= FirstAt(seq, h)
             IN  <<best>> \o most_common(seq, n - 1, taken \cup {best})

Min(a, b) == IF a < b THEN a ELSE b

\* Mutant: the score is not capped at 100.
calculate_compatibility_uncapped(hist_a, hist_b) ==
    IF hist_a = <<>> \/ hist_b = <<>> THEN 0
    ELSE LET a == Extract(hist_a, 1, {}, <<>>)
             b == Extract(hist_b, 1, {}, <<>>)
             top_a == most_common(a[2], 5, {})
             top_b == most_common(b[2], 5, {})
         IN  (Cardinality(a[1] \cap b[1]) * 5)
             + (Cardinality(Keys(top_a) \cap Keys(top_b)) * 10)

calculate_compatibility(hist_a, hist_b) ==
    IF hist_a = <<>> \/ hist_b = <<>> THEN 0
    ELSE LET a == Extract(hist_a, 1, {}, <<>>)
             b == Extract(hist_b, 1, {}, <<>>)
             shared_movies == Cardinality(a[1] \cap b[1])
             top_a == most_common(a[2], 5, {})
             top_b == most_common(b[2], 5, {})
             shared_genres == Cardinality(Keys(top_a) \cap Keys(top_b))
             score == (shared_movies * 5) + (shared_genres * 10)
         IN  Min(100, score)

\* Bounded histories: n rows with tmdb ids off+1..off+n, genres by pattern.
NumGenres == 7
CompatOffsets == {0, 3, 20}
CompatPatterns == 0..4

GenresOf(pat, i) ==
    CASE pat = 0 -> <<>>
      [] pat = 1 -> <<(i % NumGenres) + 1>>
      [] pat = 2 -> <<NumGenres - (i % NumGenres), (i % 3) + 1>>
      [] pat = 3 -> <<(i % 3) + 1, ((i * i) % NumGenres) + 1>>
      [] OTHER   -> <<1>>

Hist(n, off, pat) ==
    [i \in 1..n |-> [tmdb_id |-> off + i, genres |-> GenresOf(pat, i)]]

CompatHists ==
    {Hist(n, off, pat) : n \in 0..MaxCompatRows, off \in CompatOffsets,
                         pat \in CompatPatterns}

\* cmp_out = -1 : calculate_compatibility has not run yet.
CalcCompat ==
    /\ cmp_out = -1
    /\ cmp_out' = calculate_compatibility(cmp_a, cmp_b)
    /\ UNCHANGED <<dbVars, levelVars, boardVars, migVars, cmp_a, cmp_b>>

InitCompatInputs ==
    /\ InitDb /\ InitLevel /\ InitBoard /\ InitSchema
    /\ cmp_a \in CompatHists
    /\ cmp_b \in CompatHists
    /\ cmp_out = -1

SpecCompat == InitCompatInputs /\ [][CalcCompat]_vars

(***************************************************************************)
(* get_leaderboard applied to bounded user tables                          *)
(***************************************************************************)
\* lb_users is the users table in id order and user 1 is the caller; a row
\* carries is_public (nullable), city and country ("" for None or empty) and
\* a summary of the user's watched rows: whether there are any, whether any
\* matches the genre filter, and the runtime minutes of both sets.
BoardCap == 100

Minutes(user, genre) ==
    IF genre \in {"", "All"} THEN user.minutes ELSE user.genre_minutes

\* `if not watched and genre: continue`
Skipped(user, genre) ==
    IF genre = "" THEN FALSE
    ELSE IF genre = "All" THEN ~user.any_watched
    ELSE ~user.any_in_genre

\* The filters of the query for the scope; follows = the caller's followed ids.
InScope(users, follows, scope, i) ==
    IF scope = "friends" THEN i = 1 \/ i \in follows
    ELSE IF scope = "city" THEN users[i].city = users[1].city /\ users[i].city # ""
    ELSE IF scope = "country"
    THEN users[i].country = users[1].country /\ users[i].country # ""
    ELSE TRUE

\* One step of sorted(..., reverse=True), which is stable: the entry goes
\* behind the entries with at least its hours.
InsertByHours(e, sorted) ==
    LET k == Cardinality({j \in 1..Len(sorted) : sorted[j].hours >= e.hours})
    IN  SubSeq(sorted, 1, k) \o <<e>> \o SubSeq(sorted, k + 1, Len(sorted))

RECURSIVE SortByHours(_)
SortByHours(entries) ==
    IF entries = <<>> THEN <<>>
    ELSE InsertByHours(entries[Len(entries)],
                       SortByHours(SubSeq(entries, 1, Len(entries) - 1)))

\* Mutant: the friends scope lists the caller and the followed users
\* whatever their is_public flag.
RECURSIVE BoardEntries_friendsUnfiltered(_, _, _, _, _)
BoardEntries_friendsUnfiltered(users, follows, scope, genre, n) ==
    IF n = 0 THEN <<>>
    ELSE LET before ==
                BoardEntries_friendsUnfiltered(users, follows, scope, genre, n - 1)
         IN  IF /\ (users[n].is_public = "true" \/ scope = "friends")
                /\ InScope(users, follows, scope, n)
                /\ ~Skipped(users[n], genre)
             THEN Append(before,
                         [id |-> n, hours |-> Minutes(users[n], genre) \div 60])
             ELSE before

\* The entries appended by the loop over query.all(), in id order.
RECURSIVE BoardEntries(_, _, _, _, _)
BoardEntries(users, follows, scope, genre, n) ==
    IF n = 0 THEN <<>>
    ELSE LET before == BoardEntries(users, follows, scope, genre, n - 1)
         IN  IF /\ users[n].is_public = "true"
                /\ InScope(users, follows, scope, n)
                /\ ~Skipped(users[n], genre)
             THEN Append(before,
                         [id |-> n, hours |-> Minutes(users[n], genre) \div 60])
             ELSE before

get_leaderboard(users, follows, scope, genre) ==
    IF scope = "city" /\ users[1].city = "" THEN <<>>
    ELSE IF scope = "country" /\ users[1].country = "" THEN <<>>
    ELSE LET sorted ==
                SortByHours(BoardEntries(users, follows, scope, genre, Len(users)))
         IN  SubSeq(sorted, 1, Min(Len(sorted), BoardCap))

Flags == {"true", "false", "null"}

Homes == {[city |-> "", country |-> ""],
          [city |-> "Lagos", country |-> "NG"],
          [city |-> "Abuja", country |-> "NG"]}

WatchProfiles ==
    {[any_watched |-> FALSE, any_in_genre |-> FALSE, minutes |-> 0,
      genre_minutes |-> 0],
     [any_watched |-> TRUE, any_in_genre |-> FALSE, minutes |-> 130,
      genre_minutes |-> 0],
     [any_watched |-> TRUE, any_in_genre |-> TRUE, minutes |-> 190,
      genre_minutes |-> 60]}

BoardUser(flag, place, w) ==
    [is_public |-> flag, city |-> place.city, country |-> place.country,
     any_watched |-> w.any_watched, any_in_genre |-> w.any_in_genre,
     minutes |-> w.minutes, genre_minutes |-> w.genre_minutes]

BoardUsers == {BoardUser(f, pl, w) : f \in Flags, pl \in Homes, w \in WatchProfiles}

Scopes == {"global", "friends", "city", "country"}

Genres == {"", "All", "Drama"}

\* lb_out before get_leaderboard has run: an entry of no user.
NotRun == <<[id |-> 0, hours |-> 0]>>

CalcBoard ==
    /\ lb_out = NotRun
    /\ lb_out' = get_leaderboard(lb_users, lb_follows, lb_scope, lb_genre)
    /\ UNCHANGED <<dbVars, levelVars, compatVars, migVars,
                   lb_users, lb_follows, lb_scope, lb_genre>>

InitBoardInputs ==
    /\ InitDb /\ InitLevel /\ InitCompat /\ InitSchema
    /\ \E n \in 1..MaxBoardUsers :
          /\ lb_users \in [1..n -> BoardUsers]
          /\ lb_follows \in SUBSET (2..n)
    /\ lb_scope \in Scopes
    /\ lb_genre \in Genres
    /\ lb_out = NotRun

SpecBoard == InitBoardInputs /\ [][CalcBoard]_vars

(***************************************************************************)
(* run_migrations applied to databases of older versions                   *)
(***************************************************************************)
\* Mutant: every listed column of an existing table is added, whether the
\* table has it or not.
Needed_noColumnCheck(sch) ==
    LET Test(e) == has_table(sch, e[1])
    IN  SelectSeq(Listed, Test)

\* The statements that a run issues on schema sch when none fails.  The
\* inspector caches get_columns, so both blocks of `history` test the columns
\* the table had when the run began.
Needed(sch) ==
    LET Test(e) == has_table(sch, e[1]) /\ e \notin sch
    IN  SelectSeq(Listed, Test)

\* The first statement of todo that the database rejects: the one that the
\* environment makes fail (failAt, 0 for none) or one that adds a column the
\* table already has; 0 when every statement succeeds.
FirstError(sch, todo, failAt) ==
    LET bad == {i \in DOMAIN todo :
                  \/ i = failAt
                  \/ todo[i] \in sch
                  \/ \E j \in 1..(i - 1) : todo[j] = todo[i]}
    IN  IF bad = {} THEN 0 ELSE CHOOSE i \in bad : \A j \in bad : i <= j

\* Base.metadata.create_all(bind=engine), when the module is loaded.
create_all ==
    /\ mig_status = "start"
    /\ schema' = CreateAll(schema)
    /\ mig_status' = "created"
    /\ UNCHANGED <<mig_alters, dialect, dbVars, levelVars, compatVars, boardVars>>

\* run_migrations().  An error ends the run in the except branch, before
\* conn.commit(): the statements before it stay (SQLite runs DDL outside a
\* transaction) or are rolled back (PostgreSQL).
run_migrations(failAt) ==
    /\ mig_status # "start"
    /\ Len(mig_alters) < MaxRuns
    /\ LET todo == Needed(schema)
           stop == FirstError(schema, todo, failAt)
       IN  /\ failAt \in 0..Len(todo)
           /\ IF stop = 0
              THEN /\ schema' = schema \cup {todo[i] : i \in DOMAIN todo}
                   /\ mig_alters' = Append(mig_alters, {todo[i] : i \in DOMAIN todo})
                   /\ mig_status' = "ok"
              ELSE /\ schema' = IF dialect = "sqlite"
                                THEN schema \cup {todo[i] : i \in 1..(stop - 1)}
                                ELSE schema
                   /\ mig_alters' = Append(mig_alters, {todo[i] : i \in 1..stop})
                   /\ mig_status' = "error"
    /\ UNCHANGED <<dialect, dbVars, levelVars, compatVars, boardVars>>

\* The listed columns of table t, in the order of the code.
ColsOf(t) ==
    LET Test(e) == e[1] = t
    IN  SelectSeq(Listed, Test)

\* A table of an older version: its key and the first k listed columns.
Legacy(t, k) == {Col(t, "id")} \cup {ColsOf(t)[i] : i \in 1..k}

\* The versions of each table that a database may start with; a database
\* may also lack the table.
LegacySizes(t) ==
    IF t = "history" THEN {0, 3, 8, 11, 14}
    ELSE IF t = "users" THEN {0, 1, 5, 7}
    ELSE {0, 1}

LegacyTables(t) == {{}} \cup {Legacy(t, k) : k \in LegacySizes(t)}

LegacySchemas ==
    {h \cup u \cup n \cup pi \cup pl :
        h \in LegacyTables("history"), u \in LegacyTables("users"),
        n \in LegacyTables("notifications"),
        pi \in LegacyTables("playlist_items"),
        pl \in LegacyTables("playlists")}

RunMigrations ==
    \E failAt \in 0..Len(Listed) : run_migrations(failAt)

InitMigrate ==
    /\ InitDb /\ InitLevel /\ InitCompat /\ InitBoard
    /\ schema \in LegacySchemas
    /\ mig_status = "start"
    /\ mig_alters = <<>>
    /\ dialect \in Dialects

NextMigrate ==
    \/ create_all
    \/ RunMigrations

SpecMigrate == InitMigrate /\ [][NextMigrate]_vars

(***************************************************************************)
(* Properties                                                              *)
(***************************************************************************)
\* XP the documentation assigns to one watched row.
WatchedXp(r) ==
    5 + (IF r.media_type = "movie" THEN 100 ELSE 25)
      + (IF r.view_count > 1 THEN 10 * (r.view_count - 1) ELSE 0)
      + (IF r.rating > 0 THEN 50 ELSE 0)

RECURSIVE SumWatched(_, _)
SumWatched(u, i) ==
    IF i = 0 THEN 0
    ELSE LET rs == {r \in history : r.id = i /\ r.user_id = u /\ r.status = "watched"}
         IN  (IF rs = {} THEN 0 ELSE WatchedXp(CHOOSE r \in rs : TRUE))
             + SumWatched(u, i - 1)

\* XP derived from the user's current watch history alone.
DerivedXp(u) == SumWatched(u, MaxId(history))

\* The user's entries for a title.
EntriesOf(h, u, t) == {r \in h : r.user_id = u /\ r.tmdb_id = t}

\* C1: after every request, every user's stored xp equals the sum, over the
\* user's watched entries, of 5 + (100 movie | 25 otherwise)
\* + 10 per view beyond the first + 50 when rated above 0.
C1_XpDerivedFromHistory == \A u \in Users : xp[u] = DerivedXp(u)

\* C2: a successful delete_entry of a watched entry, or an update_status that
\* moves a watched entry to another status, lowers the caller's xp by exactly
\* that entry's contribution, and the xp is not negative.
C2_RemovalLowersXp ==
    [][\A e \in history :
         (/\ e.status = "watched"
          /\ resp'.code = 200
          /\ resp'.user = e.user_id
          /\ resp'.arg = e.tmdb_id
          /\ \/ resp'.op = "delete_entry" /\ e \notin history'
             \/ /\ resp'.op = "update_status"
                /\ \E n \in history' : n.id = e.id /\ n.status # "watched")
         => /\ xp'[e.user_id] = xp[e.user_id] - WatchedXp(e)
            /\ xp'[e.user_id] >= 0]_vars

\* C10: update_rating answers 404 when the caller has no entry for the title,
\* and 400 when the caller has one and the rating is below 0 or above 5; both
\* leave the history rows and the caller's xp and level as they were; and every
\* row's rating is within 0..5 in every reachable state.
C10_UpdateRatingErrors ==
    /\ [](\A r \in history : r.rating \in 0..5)
    /\ [][resp'.op = "update_rating" =>
            \A u \in Users, t \in TmdbIds, rating \in Ratings :
               update_rating(u, t, rating) =>
                 /\ resp'.code = 404 <=> EntriesOf(history, u, t) = {}
                 /\ resp'.code = 400 <=>
                      (EntriesOf(history, u, t) # {} /\ (rating < 0 \/ rating > 5))
                 /\ resp'.code \in {400, 404} =>
                      /\ history' = history
                      /\ xp'[u] = xp[u]
                      /\ level'[u] = level[u]]_vars

\* C10 witness: a rated entry kept its rating through a rejected update_rating.
C10_Witness ==
    /\ resp.op = "update_rating"
    /\ resp.code = 400
    /\ \E r \in EntriesOf(history, resp.user, resp.arg) : r.rating = 4

\* C3: calculate_level returns 1 for negative xp; for xp >= 0 it returns the
\* one L >= 1 with (20*(L-1))^2 <= xp < (20*L)^2 (1 for 0..399, 2 for
\* 400..1599); and it never decreases when xp grows.
C3_LevelBands ==
    /\ [](lvl_out # 0 =>
            /\ lvl_in < 0 => lvl_out = 1
            /\ lvl_in \in 0..399 => lvl_out = 1
            /\ lvl_in \in 400..1599 => lvl_out = 2
            /\ lvl_in >= 0 =>
                 \A L \in 1..(lvl_in + 1) :
                    ((20 * (L - 1)) * (20 * (L - 1)) <= lvl_in
                       /\ lvl_in < (20 * L) * (20 * L)) <=> (L = lvl_out))
    /\ [][(lvl_out # 0 /\ lvl_in <= lvl_in') => lvl_out <= lvl_out']_vars

\* C3 witness: the first xp of the third band has been evaluated.
C3_Witness == lvl_in = 1600 /\ lvl_out = 3

\* The streak the documentation prescribes for a call on day `day`.
ExpectedStreak(streak, last, day) ==
    IF last = NoDate \/ last < day - 1 THEN 1
    ELSE IF last = day - 1 THEN streak + 1
    ELSE streak

\* C4: update_streak on day D sets current_streak to 1 when there is no
\* last_active_date or it is before D-1, adds exactly 1 when it is D-1, leaves
\* the streak alone when it is D, and sets last_active_date to D; a request
\* that leaves the caller's entry watched runs it; so the streak is >= 1 once
\* a date is recorded, and requests on one day raise it by at most 1.
C4_Streak ==
    /\ [](\A u \in Users : last_active_date[u] # NoDate => current_streak[u] >= 1)
    /\ [][\A u \in Users :
            /\ (\/ last_active_date'[u] # last_active_date[u]
                \/ current_streak'[u] # current_streak[u]
                \/ /\ resp'.op \in {"log_content", "update_status"}
                   /\ resp'.code = 200
                   /\ resp'.user = u
                   /\ \E r \in EntriesOf(history', u, resp'.arg) : r.status = "watched")
               => /\ last_active_date'[u] = today
                  /\ current_streak'[u] =
                       ExpectedStreak(current_streak[u], last_active_date[u], today)
            /\ (last_active_date[u] = today /\ today' = today)
               => current_streak'[u] = current_streak[u]
            /\ current_streak'[u] <= current_streak[u] + 1]_vars

\* C4 witness: a user active on consecutive days, then again on the second.
C4_Witness ==
    \E u \in Users :
       /\ current_streak[u] = 2
       /\ last_active_date[u] = today
       /\ resp.user = u
       /\ resp.op = "update_status"
       /\ \E r \in EntriesOf(history, u, resp.arg) : r.status = "watched"

\* tmdb ids and genres of a history, read off the rows.
IdsOf(h) == {h[i].tmdb_id : i \in DOMAIN h}

GenreSet(h) == UNION {Keys(h[i].genres) : i \in DOMAIN h}

\* <<row, position>> of every occurrence of genre g in history h.
Places(h, g) ==
    UNION {{<<i, j>> : j \in {k \in DOMAIN h[i].genres : h[i].genres[k] = g}} :
             i \in DOMAIN h}

Earlier(p, q) == p[1] < q[1] \/ (p[1] = q[1] /\ p[2] < q[2])

\* g ranks above x: more occurrences, or as many and g occurs first.
Above(h, g, x) ==
    \/ Cardinality(Places(h, g)) > Cardinality(Places(h, x))
    \/ /\ Cardinality(Places(h, g)) = Cardinality(Places(h, x))
       /\ \E p \in Places(h, g) : \A q \in Places(h, x) : Earlier(p, q)

\* The user's top-5 genres.
TopGenres(h) ==
    CHOOSE T \in SUBSET GenreSet(h) :
       /\ Cardinality(T) = Min(5, Cardinality(GenreSet(h)))
       /\ \A g \in T, x \in GenreSet(h) \ T : Above(h, g, x)

\* C5: calculate_compatibility returns 0 when either history is empty, and
\* otherwise min(100, 5 * shared tmdb ids + 10 * genres in both top-5 lists);
\* the result is an integer in 0..100.
C5_Compatibility ==
    cmp_out # -1 =>
       /\ cmp_out \in 0..100
       /\ (cmp_a = <<>> \/ cmp_b = <<>>) => cmp_out = 0
       /\ (cmp_a # <<>> /\ cmp_b # <<>>) =>
            cmp_out = Min(100, 5 * Cardinality(IdsOf(cmp_a) \cap IdsOf(cmp_b))
                               + 10 * Cardinality(TopGenres(cmp_a) \cap TopGenres(cmp_b)))

\* C5 witness: a capped score, for users with more than five genres of which
\* some but not all top-5 genres are shared.
C5_Witness ==
    /\ cmp_out = 100
    /\ Cardinality(GenreSet(cmp_a)) > 5
    /\ Cardinality(TopGenres(cmp_a) \cap TopGenres(cmp_b)) \in 1..4
    /\ 5 * Cardinality(IdsOf(cmp_a) \cap IdsOf(cmp_b)) < 100

Ids(h) == {r.id : r \in h}

\* C6: a user has at most one history row per tmdb_id; log_content or
\* block_item for a title the user already has inserts no row; and
\* process_message leaves the history table alone.
C6_OneRowPerTitle ==
    /\ [](\A r1 \in history, r2 \in history :
            (r1.user_id = r2.user_id /\ r1.tmdb_id = r2.tmdb_id) => r1 = r2)
    /\ [][(/\ resp'.op \in {"log_content", "block_item"}
           /\ EntriesOf(history, resp'.user, resp'.arg) # {})
          => /\ Ids(history') = Ids(history)
             /\ Cardinality(history') = Cardinality(history)]_vars
    /\ [][resp'.op = "process_message" => history' = history]_vars

\* C6 witness: block_item has blocked a row that log_content had created
\* (rows that block_item inserts start with view_count 1), beside another row.
C6_Witness ==
    /\ resp.op = "block_item"
    /\ Cardinality(history) = 2
    /\ \E r \in EntriesOf(history, resp.user, resp.arg) :
          r.status = "blocked" /\ r.view_count = 0

\* C7: follow_user answers 400 for the caller's own id and 404 for an id of
\* no user, adding no Follower row in either case; it succeeds only for
\* another existing user; no Follower row has follower_id = followed_id.
C7_NoSelfFollow ==
    /\ [](\A u \in Users : followers[<<u, u>>] = 0)
    /\ [][resp'.op = "follow_user" =>
            /\ resp'.arg = resp'.user => resp'.code = 400
            /\ (resp'.arg # resp'.user /\ resp'.arg \notin Users) => resp'.code = 404
            /\ resp'.code \in {400, 404} => followers' = followers
            /\ resp'.code = 200 => (resp'.arg \in Users /\ resp'.arg # resp'.user)]_vars

\* C7 witness: a user who follows somebody was refused to follow themselves.
C7_Witness ==
    /\ resp.op = "follow_user"
    /\ resp.code = 400
    /\ resp.arg = resp.user
    /\ \E v \in Users : followers[<<resp.user, v>>] = 1

\* C8: at most one Follower row per ordered pair; follow_user for a target the
\* caller follows answers 'already_following' and changes nothing; after
\* unfollow_user the caller does not follow the target, and nothing changes
\* when the caller did not follow it.
C8_FollowOnce ==
    /\ [](\A p \in DOMAIN followers : followers[p] <= 1)
    /\ [][LET u == resp'.user
              t == resp'.arg
          IN  /\ (resp'.op = "follow_user" /\ resp'.code = 200
                    /\ followers[<<u, t>>] > 0)
                 => /\ resp'.status = "already_following"
                    /\ UNCHANGED <<followers, likes, inbox, history>>
              /\ resp'.op = "unfollow_user"
                 => /\ followers'[<<u, t>>] = 0
                    /\ \A p \in DOMAIN followers :
                          p # <<u, t>> => followers'[p] = followers[p]
                    /\ followers[<<u, t>>] = 0 =>
                          UNCHANGED <<followers, likes, inbox, history>>]_vars

\* C8 witness: a second follow_user for the same target was answered.
C8_Witness ==
    /\ resp.op = "follow_user"
    /\ resp.status = "already_following"
    /\ followers[<<resp.user, resp.arg>>] = 1

\* C9: toggle_like on an existing item flips whether the caller likes it: at
\* most one Like row per (user, item), the answer names the resulting state,
\* a second call would restore the likes; on a missing item it answers 404
\* and changes nothing.
C9_ToggleLike ==
    /\ [](\A p \in DOMAIN likes : likes[p] <= 1)
    /\ [][resp'.op = "toggle_like" =>
            LET u == resp'.user
                hid == resp'.arg
            IN  IF hid \in Ids(history)
                THEN /\ resp'.code = 200
                     /\ likes'[<<u, hid>>] = 1 - likes[<<u, hid>>]
                     /\ \A p \in DOMAIN likes :
                           p # <<u, hid>> => likes'[p] = likes[p]
                     /\ resp'.status = "liked" <=> likes'[<<u, hid>>] = 1
                     /\ resp'.status = "unliked" <=> likes'[<<u, hid>>] = 0
                     /\ ToggleLike(likes', u, hid) = likes
                ELSE /\ resp'.code = 404
                     /\ likes' = likes
                     /\ history' = history]_vars

\* C9 witness: user 2 has unliked an item of user 1 that user 1 still likes.
C9_Witness ==
    /\ resp.op = "toggle_like"
    /\ resp.status = "unliked"
    /\ resp.user = 2
    /\ likes[<<2, resp.arg>>] = 0
    /\ likes[<<1, resp.arg>>] = 1

\* The playlist row with id pid, if any.
PlaylistOf(pid) == {p \in playlists : p.id = pid}

Owns(u, pid) == \E p \in PlaylistOf(pid) : p.user_id = u

Collaborates(u, pid) ==
    \E p \in PlaylistOf(pid) :
       \E k \in DOMAIN p.collaborators : p.collaborators[k] = u

\* C11: add_playlist_item and delete_playlist_item succeed exactly for the
\* owner and the collaborators of the playlist, delete_playlist and
\* add_collaborator exactly for its owner; any other caller gets 403 (404 for
\* a playlist that does not exist, except from add_collaborator, which
\* answers 403) and no playlist, item or collaborator list changes; a
\* successful item request leaves the playlists and the items of the other
\* playlists alone.
C11_PlaylistWrites ==
    [][LET op == resp'.op
           u == resp'.user
           pid == resp'.arg
       IN  /\ op \in {"add_playlist_item", "delete_playlist_item"} =>
                /\ resp'.code = 200 <=> (Owns(u, pid) \/ Collaborates(u, pid))
                /\ resp'.code = 404 <=> PlaylistOf(pid) = {}
                /\ resp'.code \in {200, 403, 404}
                /\ resp'.code # 200 => UNCHANGED <<playlists, playlist_items>>
                /\ playlists' = playlists
                /\ \A i \in playlist_items \cup playlist_items' :
                      i.playlist_id # pid =>
                         (i \in playlist_items <=> i \in playlist_items')
           /\ op = "delete_playlist" =>
                /\ resp'.code = 200 <=> Owns(u, pid)
                /\ resp'.code = 404 <=> PlaylistOf(pid) = {}
                /\ resp'.code \in {200, 403, 404}
                /\ resp'.code # 200 => UNCHANGED <<playlists, playlist_items>>
           /\ op = "add_collaborator" =>
                /\ resp'.code = 200 <=> Owns(u, pid)
                /\ resp'.code \in {200, 403}
                /\ resp'.code # 200 => UNCHANGED <<playlists, playlist_items>>
                /\ playlist_items' = playlist_items]_vars

\* C11 witness: a collaborator who is not the owner has added an item to a
\* playlist, beside a playlist of their own.
C11_Witness ==
    /\ resp.op = "add_playlist_item"
    /\ resp.code = 200
    /\ ~Owns(resp.user, resp.arg)
    /\ Collaborates(resp.user, resp.arg)
    /\ \E i \in playlist_items : i.playlist_id = resp.arg
    /\ \E p \in playlists : p.user_id = resp.user

\* The inbox rows that process_message may remove for caller u.
Addressed(u, msg_id) == {m \in inbox : m.id = msg_id /\ m.receiver_id = u}

\* C12: process_message succeeds exactly when the caller is the receiver of
\* the message and answers 404 otherwise, keeping the inbox; on success it
\* removes that one message and nothing else, for every action value; it
\* never writes the history table or the xp columns, not even for 'accept'
\* on a recommendation of a title the caller does not have; message ids are
\* unique.
C12_ProcessMessage ==
    /\ [](\A m1 \in inbox, m2 \in inbox : m1.id = m2.id => m1 = m2)
    /\ [][resp'.op = "process_message" =>
            \A u \in Users, msg_id \in 1..MaxMsgs, action \in MsgActions :
               process_message(u, msg_id, action) =>
                  /\ UNCHANGED <<history, Game, followers, likes>>
                  /\ resp'.code = 200 <=> Addressed(u, msg_id) # {}
                  /\ resp'.code \in {200, 404}
                  /\ resp'.code = 404 => inbox' = inbox
                  /\ resp'.code = 200 =>
                        /\ inbox' = inbox \ Addressed(u, msg_id)
                        /\ Cardinality(inbox') = Cardinality(inbox) - 1]_vars

\* C12 witness: the receiver has processed a message while a recommendation
\* for another user stays in the inbox and the history holds a row.
C12_Witness ==
    /\ resp.op = "process_message"
    /\ resp.code = 200
    /\ \E m \in inbox : m.receiver_id # resp.user /\ m.type = "recommendation"
    /\ history # {}

\* C13: get_recommendations returns no title that the caller has in the
\* history table, whatever its status and however the row was created.
C13_NoSeenRecommended ==
    resp.op = "get_recommendations" =>
       \A r \in history : r.user_id = resp.user => r.tmdb_id \notin recommended

C15_UniqueNames ==
    /\ [](\A r1 \in user_rows, r2 \in user_rows : r1.name = r2.name => r1 = r2)
    /\ [][resp'.op = "update_profile" =>
            \A u \in 1..MaxUserId, name \in Names \cup {"", "Dev User"}, bio \in Bios :
               update_profile(u, name, bio) =>
                  ((\E r \in user_rows : r.id # u /\ r.name = name)
                      => resp'.code = 400 /\ user_rows' = user_rows)]_vars

\* C16: the token 'dev' is accepted only while RENDER is unset, as one of the
\* existing users (the row the query returns first) and creating the dev
\* user only in an empty table; with RENDER set it gets 401; any other token
\* is accepted exactly when it decodes, has a 'sub' and the 'sub' is the id of
\* a user, whom it authenticates, and gets 401 otherwise; only the creation of
\* the dev user writes the users table.
C16_DevToken ==
    [][resp'.op = "get_current_user" =>
         \A token \in Tokens :
            get_current_user(token) =>
               /\ resp'.code \in {200, 401}
               /\ RENDER' = RENDER
               /\ (token = "dev" /\ RENDER = "unset" /\ user_rows # {}) =>
                     /\ resp'.code = 200
                     /\ user_rows' = user_rows
                     /\ \E r \in user_rows : r.id = resp'.user
               /\ (token = "dev" /\ RENDER = "unset" /\ user_rows = {}) =>
                     /\ resp'.code = 200
                     /\ \E r \in user_rows' :
                           /\ user_rows' = {r}
                           /\ r.id = resp'.user
                           /\ r.email = "dev@example.com"
               /\ (token = "dev" /\ RENDER # "unset") =>
                     resp'.code = 401 /\ user_rows' = user_rows
               /\ token # "dev" =>
                     /\ user_rows' = user_rows
                     /\ resp'.code = 200 <=>
                           /\ Decodes(token)
                           /\ SubOf(token) # 0
                           /\ \E r \in user_rows : r.id = SubOf(token)
                     /\ resp'.code = 200 => resp'.user = SubOf(token)]_vars

\* C16 witness: with RENDER set and two users in the table, 'dev' got 401.
C16_Witness ==
    /\ resp.op = "get_current_user"
    /\ resp.arg = "dev"
    /\ resp.code = 401
    /\ RENDER = "true"
    /\ Cardinality(user_rows) = 2

\* C17: a run of run_migrations issues ALTER TABLE ADD COLUMN only for
\* listed columns that an existing table lacks; after a run that completed
\* without error every listed column exists; a run that follows such a run
\* issues no statement, leaves the schema unchanged and completes.
C17_MigrationsIdempotent ==
    /\ [](mig_status = "ok" => ListedCols \subseteq schema)
    /\ [][Len(mig_alters') > Len(mig_alters) =>
            /\ \A e \in mig_alters'[Len(mig_alters')] :
                  e \in ListedCols /\ has_table(schema, e[1]) /\ e \notin schema
            /\ mig_status = "ok" =>
                  /\ mig_alters'[Len(mig_alters')] = {}
                  /\ schema' = schema
                  /\ mig_status' = "ok"]_vars

\* C17 witness: on a database of an older version the first run has added
\* columns to history (in both of its blocks) and to users, and the second
\* run has issued nothing.
C17_Witness ==
    /\ Len(mig_alters) = 2
    /\ mig_status = "ok"
    /\ Col("history", "rating") \in mig_alters[1]
    /\ Col("history", "view_count") \in mig_alters[1]
    /\ Col("users", "city") \in mig_alters[1]
    /\ mig_alters[2] = {}

====
